---- MODULE Spec2Model ----
(***************************************************************************)
(* The analyze endpoint of the node-text-intelligence starter, in its five *)
(* variants:                                                               *)
(*   "server"     src/server.js            POST /text-intelligence/analyze *)
(*   "multipart"  src/unnamed/part_000:19  multipart form, url wins        *)
(*   "minimal"    src/unnamed/part_000:196 JSON, text only                 *)
(*   "vite"       src/unnamed/part_001     as server.js, echoes request id *)
(*   "session"    src/unnamed/part_002     as server.js, behind a JWT      *)
(* A JavaScript value is a record [t, v]: t its type, v its content as a   *)
(* sequence (the characters of a string, the elements of an array).        *)
(* The session routes of part_002 (GET /, GET /api/session) and their      *)
(* nonce store are a specification of their own, SessionSpec.              *)
(***************************************************************************)
EXTENDS Integers, Sequences, FiniteSets, TLC

VARIABLES variant, pc, req, hdr, upstream, textContent, options, reply, res, calls

\* A second invocation of the handler, suspended at an await while the one
\* above runs: its frame.
VARIABLES parked

\* part_002's session layer: its configuration, its nonce store, the clock,
\* the session request being answered and its response; issuedAt and tokens
\* record what the routes have done so far.
VARIABLES REQUIRE_NONCE, indexHtmlTemplate, sessionNonces, now,
          spc, presented, sres, issuedAt, tokens

handlerVars == <<variant, pc, req, hdr, upstream, textContent, options, reply, res, calls>>

sessionVars ==
  <<REQUIRE_NONCE, indexHtmlTemplate, sessionNonces, now,
    spc, presented, sres, issuedAt, tokens>>

vars == <<handlerVars, parked, sessionVars>>

\* ------------------------------------------------------------------ bounds
MaxTextLen == 2
MaxUrlLen == 2
MaxBodyLen == 2
MaxResultKeys == 2
MaxNonces == 2
MaxTime == 6
MaxTokens == 2

\* ------------------------------------------------------- JavaScript values
Undefined == [t |-> "undefined", v |-> <<>>]
Str(s) == [t |-> "string", v |-> s]
JsTrue == [t |-> "boolean", v |-> <<"true">>]
Arr(s) == [t |-> "array", v |-> s]
ObjOf(k) == [t |-> "object", v |-> <<k>>]
EmptyObj == [t |-> "object", v |-> <<>>]

\* ToBoolean: undefined and the empty string are falsy; non-empty strings,
\* true, arrays and objects (the empty object too) are truthy.
Truthy(x) ==
  \/ x.t = "string" /\ Len(x.v) > 0
  \/ x.t = "boolean"
  \/ x.t = "array"
  \/ x.t = "object"

\* String literals of the source, as character sequences.
S_true == <<"t", "r", "u", "e">>
S_false == <<"f", "a", "l", "s", "e">>
S_v1 == <<"v", "1">>
S_v2 == <<"v", "2">>
S_en == <<"e", "n">>
S_es == <<"e", "s">>
S_abc123 == <<"a", "b", "c", "1", "2", "3">>

\* All sequences over alphabet A of length at most n.
SeqsUpTo(A, n) == UNION {[1..k -> A] : k \in 0..n}

\* String.prototype.trim: drops leading and trailing white space.
IsSpace(c) == c = " "

RECURSIVE TrimStart(_)
TrimStart(s) ==
  IF s = <<>> THEN <<>>
  ELSE IF IsSpace(Head(s)) THEN TrimStart(Tail(s)) ELSE s

RECURSIVE TrimEnd(_)
TrimEnd(s) ==
  IF s = <<>> THEN <<>>
  ELSE IF IsSpace(s[Len(s)]) THEN TrimEnd(SubSeq(s, 1, Len(s) - 1)) ELSE s

Trim(s) == TrimEnd(TrimStart(s))

\* new URL(url) without a base: after stripping leading and trailing spaces
\* the input must start with a scheme, one letter followed by scheme
\* characters up to a ':'; anything else throws TypeError.
IsAlpha(c) == c = "a"

ParsesAsURL(s) ==
  LET u == Trim(s) IN
  \E i \in 2..Len(u) :
    /\ u[i] = ":"
    /\ \A j \in 1..(i - 1) : IsAlpha(u[j])

\* String.prototype.includes over a message made of words.
Includes(msg, word) == \E i \in 1..Len(msg) : msg[i] = word

\* ------------------------------------------------------------ the variants
Variants == {"server", "multipart", "minimal", "vite", "session"}

\* Fault: no variant has the both-present check.
ChecksBoth_Nowhere(v) == FALSE

\* if (text && url) -> INVALID_TEXT: server.js, part_001, part_002.
ChecksBoth(v) == v \in {"server", "vite", "session"}

\* Fault: the minimal variant reads url as the others do.
AcceptsUrl_Everywhere(v) == TRUE

\* The variants that read req.body.url: all but the minimal text-only one.
AcceptsUrl(v) == v # "minimal"

\* Fault: 'v1' is forwarded everywhere, as the part_000 variants do.
RejectsV1_Nowhere(v) == FALSE

\* else if (summarize === 'v1') -> INVALID_TEXT: server.js, part_001, part_002;
\* the part_000 variants forward 'v1'.
RejectsV1(v) == v \in {"server", "vite", "session"}

\* topics, sentiment and intents are read from req.query in server.js,
\* part_001 and part_002; the part_000 variants read language and summarize.
MapsFlags(v) == v \in {"server", "vite", "session"}

\* res.setHeader('X-Request-Id', requestId): part_000 (both), part_001.
EchoesRequestId(v) == v \in {"multipart", "minimal", "vite"}

\* results: { summary: result.results?.summary || {} } in the part_000
\* variants; results: result.results || {} in the others.
ShapesSummaryOnly(v) == v \in {"multipart", "minimal"}

\* app.post('/api/text-intelligence', requireSession, ...): part_002 only.
RequiresSession(v) == v = "session"

\* ---------------------------------------------------------------- requests
TextChars == {" ", "a"}
UrlChars == {" ", "a", ":"}

Texts == {Undefined} \cup {Str(s) : s \in SeqsUpTo(TextChars, MaxTextLen)}
Urls == {Undefined} \cup {Str(s) : s \in SeqsUpTo(UrlChars, MaxUrlLen)}

FlagValues == {Undefined, Str(S_true), JsTrue, Str(S_false)}
SummarizeValues == {Undefined, Str(S_true), JsTrue, Str(S_v1), Str(S_v2), Str(S_false)}
LanguageValues == {Undefined, Str(<<>>), Str(S_es)}
CustomValues == {Undefined, Str(<<"t">>), Arr(<< <<"t">>, <<"u">> >>)}
RequestIds == {Undefined, Str(S_abc123)}

NoAuth == [scheme |-> "none", token |-> "none"]
Basic == [scheme |-> "Basic", token |-> "none"]
Bearer(tok) == [scheme |-> "Bearer", token |-> tok]
AuthValues == {NoAuth, Basic, Bearer("valid"), Bearer("forged"), Bearer("expired")}

\* Every body with a few queries, and a few bodies with every query.
BodiesAll == [text : Texts, url : Urls]
BodiesFew ==
  { [text |-> Str(<<"a">>), url |-> Undefined],
    [text |-> Str(<<"a">>), url |-> Str(<<"a", ":">>)],
    [text |-> Undefined, url |-> Undefined] }

QueriesFlags ==
  [language : LanguageValues, summarize : SummarizeValues, topics : FlagValues,
   sentiment : FlagValues, intents : FlagValues,
   custom_topic : {Undefined}, custom_intent : {Undefined}]
QueriesCustom ==
  [language : {Undefined}, summarize : {Undefined}, topics : FlagValues,
   sentiment : {Undefined}, intents : FlagValues,
   custom_topic : CustomValues, custom_intent : CustomValues]
QueriesFew ==
  {q \in QueriesFlags :
     /\ q.language = Undefined
     /\ q.summarize \in {Undefined, Str(S_true), Str(S_v1)}
     /\ q.topics = Undefined /\ q.sentiment = Undefined /\ q.intents = Undefined}

\* The Authorization header is read by requireSession alone.
AuthFor(v) == IF RequiresSession(v) THEN AuthValues ELSE {NoAuth}

RequestsFor(v) ==
  [body : BodiesAll, query : QueriesFew,
   headers : [requestId : RequestIds, authorization : AuthFor(v)]]
  \cup
  [body : BodiesFew, query : QueriesFlags \cup QueriesCustom,
   headers : [requestId : {Str(S_abc123)}, authorization : AuthFor(v)]]

\* ------------------------------------------------- replies of the outside
Messages ==
  {<<>>, <<"failed">>, <<"text">>, <<"too long">>,
   <<"text", "too long">>, <<"too long", "text">>}

FetchedBodies == SeqsUpTo(TextChars, MaxBodyLen)

\* fetch(url) rejects, or resolves to a Response whose text() resolves to
\* the body or rejects.
FetchReplies ==
  {[kind |-> "reject", ok |-> FALSE, body |-> <<>>, message |-> <<"failed">>]}
  \cup [kind : {"response"}, ok : BOOLEAN, body : FetchedBodies, message : {<<"Not Found">>}]
  \cup {[kind |-> "unreadable", ok |-> TRUE, body |-> <<>>, message |-> <<"failed">>]}
NoFetchReply == [kind |-> "none", ok |-> FALSE, body |-> <<>>, message |-> <<>>]

ResultKeys == {"summary", "sentiments", "topics", "intents", "extra"}
RecognizedKeys == {"summary", "sentiments", "topics", "intents"}
NoResults == [k \in ResultKeys |-> Undefined]
ResultsWith(K) == [k \in ResultKeys |-> IF k \in K THEN ObjOf(k) ELSE Undefined]
ServiceResults ==
  {ResultsWith(K) : K \in {S \in SUBSET ResultKeys : Cardinality(S) <= MaxResultKeys}}

\* deepgram.read.analyzeText resolves to { result, error } or rejects.
AnalyzeReplies ==
  [kind : {"result"}, hasResults : {TRUE}, results : ServiceResults, message : {<<>>}]
  \cup {[kind |-> "result", hasResults |-> FALSE, results |-> NoResults, message |-> <<>>]}
  \cup [kind : {"error", "throw"}, hasResults : {FALSE}, results : {NoResults}, message : Messages]
NoAnalyzeReply == [kind |-> "none", hasResults |-> FALSE, results |-> NoResults, message |-> <<>>]

\* ------------------------------------------------------- the handler's data
NoRequest ==
  [body |-> [text |-> Undefined, url |-> Undefined],
   query |-> [language |-> Undefined, summarize |-> Undefined, topics |-> Undefined,
              sentiment |-> Undefined, intents |-> Undefined,
              custom_topic |-> Undefined, custom_intent |-> Undefined],
   headers |-> [requestId |-> Undefined, authorization |-> NoAuth]]

\* An options object: a key the code never set reads as undefined.
NoOptions ==
  [language |-> Undefined, summarize |-> Undefined, topics |-> Undefined,
   sentiment |-> Undefined, intents |-> Undefined,
   custom_topic |-> Undefined, custom_intent |-> Undefined]

NoResponse ==
  [status |-> 0, type |-> "", code |-> "", message |-> <<>>, results |-> NoResults]

\* Fault: every error response is labelled validation_error, the ones sent
\* after the analysis call too.
Err_AlwaysValidation(status, type, code, message) ==
  [status |-> status, type |-> "validation_error", code |-> code,
   message |-> message, results |-> [k \in ResultKeys |-> Undefined]]

\* res.status(status).json({ error: { type, code, message, details: {} } })
Err(status, type, code, message) ==
  [status |-> status, type |-> type, code |-> code, message |-> message,
   results |-> NoResults]

\* res.json({ results }) with the default status 200
Ok(results) ==
  [status |-> 200, type |-> "", code |-> "", message |-> <<>>, results |-> results]

NoCalls == [fetch |-> 0, analyze |-> 0]

\* language: language || 'en'
LanguageOption(language) == IF Truthy(language) THEN language ELSE Str(S_en)

\* if (x === 'true' || x === true) options.x = true
IsTrueParam(x) == x = Str(S_true) \/ x = JsTrue

\* Fault: any supplied value switches the feature on.
FlagOption_AnyValue(x) == IF Truthy(x) THEN JsTrue ELSE Undefined

FlagOption(x) == IF IsTrueParam(x) THEN JsTrue ELSE Undefined

\* summarize: true for 'true'/true, 'v2' passed through; 'v1' passed through
\* where it is not rejected.
SummarizeOption(v, x) ==
  IF IsTrueParam(x) THEN JsTrue
  ELSE IF x = Str(S_v2) THEN x
  ELSE IF ~RejectsV1(v) /\ x = Str(S_v1) THEN x
  ELSE Undefined

SummarizeRejected(v, x) == RejectsV1(v) /\ ~IsTrueParam(x) /\ x # Str(S_v2) /\ x = Str(S_v1)

\* Fault: custom_topic and custom_intent are forwarded as arrays and switch
\* their parent feature on.
BuildOptions_WithCustom(v, q) ==
  LET wrap(x) == IF x.t = "string" THEN Arr(<<x.v>>) ELSE x IN
  [language |-> LanguageOption(q.language),
   summarize |-> SummarizeOption(v, q.summarize),
   topics |-> IF Truthy(q.custom_topic) THEN JsTrue
              ELSE IF MapsFlags(v) THEN FlagOption(q.topics) ELSE Undefined,
   sentiment |-> IF MapsFlags(v) THEN FlagOption(q.sentiment) ELSE Undefined,
   intents |-> IF Truthy(q.custom_intent) THEN JsTrue
               ELSE IF MapsFlags(v) THEN FlagOption(q.intents) ELSE Undefined,
   custom_topic |-> wrap(q.custom_topic),
   custom_intent |-> wrap(q.custom_intent)]

\* const options = { language: language || 'en' }; then one key per feature.
BuildOptions(v, q) ==
  [language |-> LanguageOption(q.language),
   summarize |-> SummarizeOption(v, q.summarize),
   topics |-> IF MapsFlags(v) THEN FlagOption(q.topics) ELSE Undefined,
   sentiment |-> IF MapsFlags(v) THEN FlagOption(q.sentiment) ELSE Undefined,
   intents |-> IF MapsFlags(v) THEN FlagOption(q.intents) ELSE Undefined,
   custom_topic |-> Undefined,
   custom_intent |-> Undefined]

\* The options as they stand when 'v1' is rejected: language alone.
OptionsAtRejection(q) == [NoOptions EXCEPT !.language = LanguageOption(q.language)]

\* Fault: a field counts as present unless it is undefined.
MissingFields_Undefined(text, url) == text = Undefined /\ url = Undefined

\* Fault: the presence check tests url the wrong way round.
MissingFields_UrlNotNegated(text, url) == ~Truthy(text) /\ Truthy(url)

\* Fault: the presence check looks at text alone, as the minimal variant's.
MissingFields_TextOnly(text, url) == ~Truthy(text)

\* if (!text && !url)
MissingFields(text, url) == ~Truthy(text) /\ ~Truthy(url)

\* Fault: the TypeError of new URL is swallowed without a response.
UrlRejected_Swallowed(url) == FALSE

\* try { new URL(url) } catch (e) { return ... INVALID_URL }
UrlRejected(url) == ~ParsesAsURL(url.v)

\* Fault: the status of the upstream response is not looked at.
FetchFailed_StatusIgnored(f) == f.kind = "reject"

\* fetch threw, or if (!response.ok)
FetchFailed(f) == f.kind = "reject" \/ ~f.ok

\* Fault: the emptiness check forgets to trim.
IsBlank_NoTrim(tc) == ~Truthy(tc)

\* if (!textContent || textContent.trim().length === 0)
IsBlank(tc) == ~Truthy(tc) \/ Len(Trim(tc.v)) = 0

\* Fault: the response keeps the recognized keys only.
ShapeResults_Filtered(v, rep) ==
  [k \in ResultKeys |->
     IF k \in RecognizedKeys /\ rep.hasResults THEN rep.results[k] ELSE Undefined]

\* The results of the 200 response.
ShapeResults(v, rep) ==
  IF ShapesSummaryOnly(v)
  THEN [NoResults EXCEPT !["summary"] =
          IF rep.hasResults /\ Truthy(rep.results["summary"])
          THEN rep.results["summary"] ELSE EmptyObj]
  ELSE IF rep.hasResults THEN rep.results ELSE NoResults

\* The catch block's classification of err.message.
CaughtStatus(msg) ==
  IF Truthy(Str(msg)) /\ Includes(msg, "text") THEN 400
  ELSE IF Truthy(Str(msg)) /\ Includes(msg, "too long") THEN 400
  ELSE 500

CaughtCode(msg) ==
  IF Truthy(Str(msg)) /\ Includes(msg, "text") THEN "INVALID_TEXT"
  ELSE IF Truthy(Str(msg)) /\ Includes(msg, "too long") THEN "TEXT_TOO_LONG"
  ELSE "INVALID_TEXT"

\* Fault: the message goes out as it is, without the fallback.
MessageOr_NoFallback(msg, fallback) == msg

\* message: x || fallback
MessageOr(msg, fallback) == IF Truthy(Str(msg)) THEN msg ELSE fallback

\* requireSession: the header must start with "Bearer " and jwt.verify
\* must accept the token.
HasBearer(auth) == auth.scheme = "Bearer"

\* Fault: the token is decoded without its signature and expiry being
\* verified.
TokenVerifies_Unverified(auth) == TRUE

TokenVerifies(auth) == auth.token = "valid"

\* const requestId = req.headers['x-request-id'];
\* if (requestId) res.setHeader('X-Request-Id', requestId);
EchoHeader(v, r) ==
  IF EchoesRequestId(v) /\ Truthy(r.headers.requestId)
  THEN r.headers.requestId ELSE Undefined

\* ------------------------------------------------------ the session layer
\* Time in minutes. NONCE_TTL_MS = 5 * 60 * 1000.
NONCE_TTL == 5

\* The values crypto.randomBytes(16).toString("hex") has to offer; 0 stands
\* for a request without an x-session-nonce header (or with an empty one).
Nonces == 1..MaxNonces
NoNonce == 0
NonceHeaders == {NoNonce} \cup Nonces

\* new Map(), Map.prototype.set and Map.prototype.delete
EmptyMap == [n \in {} |-> 0]
MapSet(m, n, e) == [x \in DOMAIN m \cup {n} |-> IF x = n THEN e ELSE m[x]]
MapDelete(m, n) == [x \in DOMAIN m \ {n} |-> m[x]]

\* const expiry = sessionNonces.get(nonce); if (!expiry) return false;
Stored(m, n) == n \in DOMAIN m /\ m[n] # 0

\* Fault: a nonce that was accepted stays in the store.
AfterConsume_Kept(m, n) == m

\* sessionNonces.delete(nonce), once the nonce was found.
AfterConsume(m, n) == IF Stored(m, n) THEN MapDelete(m, n) ELSE m

\* Fault: a nonce is still good at the instant of its expiry.
Unexpired_Inclusive(t, expiry) == t <= expiry

\* return Date.now() < expiry;
Unexpired(t, expiry) == t < expiry

\* The value consumeNonce returns.
ConsumeNonce(m, n, t) == Stored(m, n) /\ Unexpired(t, m[n])

\* Fault: an entry is deleted only once its expiry lies in the past.
Swept_PastOnly(m, t) ==
  LET kept == {x \in DOMAIN m : ~(t > m[x])} IN [x \in kept |-> m[x]]

\* if (now >= expiry) sessionNonces.delete(nonce), for every entry.
Swept(m, t) ==
  LET kept == {x \in DOMAIN m : ~(t >= m[x])} IN [x \in kept |-> m[x]]

\* Responses of the session routes.
NoSessionResponse == [status |-> 0, code |-> "", nonce |-> NoNonce, token |-> FALSE]
PageResponse(n) == [status |-> 200, code |-> "", nonce |-> n, token |-> FALSE]
NotBuilt == [status |-> 404, code |-> "", nonce |-> NoNonce, token |-> FALSE]
InvalidNonce == [status |-> 403, code |-> "INVALID_NONCE", nonce |-> NoNonce, token |-> FALSE]
TokenResponse == [status |-> 200, code |-> "", nonce |-> NoNonce, token |-> TRUE]

NoTokens == [h \in NonceHeaders |-> 0]

\* The session layer at start-up, before any page load.
SessionStart ==
  /\ sessionNonces = EmptyMap
  /\ now = 0
  /\ spc = "idle"
  /\ presented = NoNonce
  /\ sres = NoSessionResponse
  /\ issuedAt = EmptyMap
  /\ tokens = NoTokens

\* The frame of an invocation: its parameters and local bindings, the
\* settled replies of its own awaits, and what it has sent.
IdleFrame ==
  [pc |-> "idle", req |-> NoRequest, hdr |-> Undefined, upstream |-> NoFetchReply,
   textContent |-> Undefined, options |-> NoOptions, reply |-> NoAnalyzeReply,
   res |-> NoResponse, calls |-> NoCalls]

\* ------------------------------------------------------------- the handler
Init ==
  /\ parked = IdleFrame
  /\ REQUIRE_NONCE = TRUE
  /\ indexHtmlTemplate = TRUE
  /\ SessionStart
  /\ variant \in Variants
  /\ pc = "idle"
  /\ req = NoRequest
  /\ hdr = Undefined
  /\ upstream = NoFetchReply
  /\ textContent = Undefined
  /\ options = NoOptions
  /\ reply = NoAnalyzeReply
  /\ res = NoResponse
  /\ calls = NoCalls

\* return res.status(...).json(...), or res.json(...) as the last statement.
Send(rs, tc, op, cl) ==
  /\ pc' = "done"
  /\ res' = rs
  /\ textContent' = tc
  /\ options' = op
  /\ calls' = cl

\* The handler suspends at an await.
Await(p, tc, op, cl) ==
  /\ pc' = p
  /\ res' = NoResponse
  /\ textContent' = tc
  /\ options' = op
  /\ calls' = cl

MissingMessage(v) ==
  IF AcceptsUrl(v) THEN <<"Request must contain either 'text' or 'url' field">>
  ELSE <<"Request body must contain 'text' field">>

EmptyMessage(v) ==
  IF AcceptsUrl(v) THEN <<"Text content cannot be empty">>
  ELSE <<"Text field cannot be empty">>

\* Fault: the summarize version is checked before the emptiness of the text.
Delegate_VersionFirst(r, tc) ==
  IF SummarizeRejected(variant, r.query.summarize)
  THEN Send(Err(400, "validation_error", "INVALID_TEXT",
                <<"Summarization v1 is no longer supported. Please use v2 or true.">>),
            tc, OptionsAtRejection(r.query), calls)
  ELSE IF IsBlank(tc)
  THEN Send(Err(400, "validation_error", "EMPTY_TEXT", EmptyMessage(variant)),
            tc, options, calls)
  ELSE Await("analyzing", tc, BuildOptions(variant, r.query),
             [calls EXCEPT !.analyze = @ + 1])

\* From the emptiness check to the analysis call.
Delegate(r, tc) ==
  IF IsBlank(tc)
  THEN Send(Err(400, "validation_error", "EMPTY_TEXT", EmptyMessage(variant)),
            tc, options, calls)
  ELSE IF SummarizeRejected(variant, r.query.summarize)
  THEN Send(Err(400, "validation_error", "INVALID_TEXT",
                <<"Summarization v1 is no longer supported. Please use v2 or true.">>),
            tc, OptionsAtRejection(r.query), calls)
  ELSE Await("analyzing", tc, BuildOptions(variant, r.query),
             [calls EXCEPT !.analyze = @ + 1])

\* From the presence check to the first await or response.
Resolve(r) ==
  LET text == r.body.text
      url == IF AcceptsUrl(variant) THEN r.body.url ELSE Undefined
  IN
  IF MissingFields(text, url)
  THEN Send(Err(400, "validation_error", "INVALID_TEXT", MissingMessage(variant)),
            textContent, options, calls)
  ELSE IF ChecksBoth(variant) /\ Truthy(text) /\ Truthy(url)
  THEN Send(Err(400, "validation_error", "INVALID_TEXT",
                <<"Request must contain either 'text' or 'url', not both">>),
            textContent, options, calls)
  ELSE IF Truthy(url)
  THEN IF UrlRejected(url)
       THEN Send(Err(400, "validation_error", "INVALID_URL", <<"Invalid URL format">>),
                 textContent, options, calls)
       ELSE Await("fetching", textContent, options, [calls EXCEPT !.fetch = @ + 1])
  ELSE Delegate(r, text)

\* requireSession, when it does not call next().
SessionRejects(auth) ==
  IF ~HasBearer(auth)
  THEN Send(Err(401, "AuthenticationError", "MISSING_TOKEN",
                <<"Authorization header with Bearer token is required">>),
            textContent, options, calls)
  ELSE Send(Err(401, "AuthenticationError", "INVALID_TOKEN",
                IF auth.token = "expired"
                THEN <<"Session expired, please refresh the page">>
                ELSE <<"Invalid session token">>),
            textContent, options, calls)

\* A request arrives: the middleware and the handler up to its first await.
Handle(r) ==
  /\ req' = r
  /\ UNCHANGED <<variant, upstream, reply>>
  /\ IF RequiresSession(variant)
        /\ ~(HasBearer(r.headers.authorization) /\ TokenVerifies(r.headers.authorization))
     THEN hdr' = hdr /\ SessionRejects(r.headers.authorization)
     ELSE hdr' = EchoHeader(variant, r) /\ Resolve(r)

\* Fault: a failed fetch is tried a second time.
FetchSettles_Retrying(f) ==
  /\ upstream' = f
  /\ UNCHANGED <<variant, req, hdr, reply>>
  /\ IF FetchFailed(f)
     THEN IF calls.fetch < 2
          THEN Await("fetching", textContent, options, [calls EXCEPT !.fetch = @ + 1])
          ELSE Send(Err(400, "validation_error", "INVALID_URL",
                        <<"Failed to fetch URL:">> \o f.message),
                    textContent, options, calls)
     ELSE Await("reading", textContent, options, calls)

\* await fetch(url) settles.
FetchSettles(f) ==
  /\ upstream' = f
  /\ UNCHANGED <<variant, req, hdr, reply>>
  /\ IF FetchFailed(f)
     THEN Send(Err(400, "validation_error", "INVALID_URL",
                   <<"Failed to fetch URL:">> \o f.message),
               textContent, options, calls)
     ELSE Await("reading", textContent, options, calls)

\* await response.text() settles.
TextReturns ==
  /\ pc = "reading"
  /\ UNCHANGED <<parked, sessionVars>>
  /\ UNCHANGED <<variant, req, hdr, upstream, reply>>
  /\ IF upstream.kind = "unreadable"
     THEN Send(Err(400, "validation_error", "INVALID_URL",
                   <<"Failed to fetch URL:">> \o upstream.message),
               textContent, options, calls)
     ELSE Delegate(req, Str(upstream.body))

\* Fault: the handler has no catch block, so an exception of the analysis
\* call leaves the request without a response.
AnalyzeSettles_Uncaught(a) ==
  /\ reply' = a
  /\ UNCHANGED <<variant, req, upstream, hdr>>
  /\ IF a.kind = "throw"
     THEN Await("unhandled", textContent, options, calls)
     ELSE IF a.kind = "error"
     THEN Send(Err(400, "processing_error", "INVALID_TEXT",
                   MessageOr(a.message, <<"Failed to process text">>)),
               textContent, options, calls)
     ELSE Send(Ok(ShapeResults(variant, a)), textContent, options, calls)

\* await deepgram.read.analyzeText(...) settles.
AnalyzeSettles(a) ==
  /\ reply' = a
  /\ UNCHANGED <<variant, req, upstream>>
  /\ IF a.kind = "throw"
     THEN /\ hdr' = IF Truthy(EchoHeader(variant, req)) THEN EchoHeader(variant, req) ELSE hdr
          /\ Send(Err(CaughtStatus(a.message), "processing_error", CaughtCode(a.message),
                      MessageOr(a.message, <<"Text processing failed">>)),
                  textContent, options, calls)
     ELSE /\ hdr' = hdr
          /\ IF a.kind = "error"
             THEN Send(Err(400, "processing_error", "INVALID_TEXT",
                           MessageOr(a.message, <<"Failed to process text">>)),
                       textContent, options, calls)
             ELSE Send(Ok(ShapeResults(variant, a)), textContent, options, calls)

\* The response is out; the server waits for the next request.
NextRequest ==
  /\ pc = "done"
  /\ pc' = "idle"
  /\ req' = NoRequest
  /\ hdr' = Undefined
  /\ upstream' = NoFetchReply
  /\ textContent' = Undefined
  /\ options' = NoOptions
  /\ reply' = NoAnalyzeReply
  /\ res' = NoResponse
  /\ calls' = NoCalls
  /\ UNCHANGED variant
  /\ UNCHANGED <<parked, sessionVars>>

Receive ==
  /\ pc = "idle"
  /\ UNCHANGED <<parked, sessionVars>>
  /\ \E r \in RequestsFor(variant) : Handle(r)

FetchReturns ==
  /\ pc = "fetching"
  /\ UNCHANGED <<parked, sessionVars>>
  /\ \E f \in FetchReplies : FetchSettles(f)

AnalyzeReturns ==
  /\ pc = "analyzing"
  /\ UNCHANGED <<parked, sessionVars>>
  /\ \E a \in AnalyzeReplies : AnalyzeSettles(a)

Next ==
  \/ Receive
  \/ FetchReturns
  \/ TextReturns
  \/ AnalyzeReturns
  \/ NextRequest

Spec == Init /\ [][Next]_vars

\* ------------------------------------------------------ the session routes
\* The server of part_002 with no analysis request in progress; nonce
\* validation is enforced when SESSION_SECRET is set, and the page is served
\* when frontend/dist/index.html was found at start-up.
SessionInit ==
  /\ REQUIRE_NONCE \in BOOLEAN
  /\ indexHtmlTemplate \in BOOLEAN
  /\ SessionStart
  /\ parked = IdleFrame
  /\ variant = "session"
  /\ pc = "idle"
  /\ req = NoRequest
  /\ hdr = Undefined
  /\ upstream = NoFetchReply
  /\ textContent = Undefined
  /\ options = NoOptions
  /\ reply = NoAnalyzeReply
  /\ res = NoResponse
  /\ calls = NoCalls

\* generateNonce(): a value not drawn before, stored with its expiry.
GenerateNonce(n) ==
  /\ sessionNonces' = MapSet(sessionNonces, n, now + NONCE_TTL)
  /\ issuedAt' = MapSet(issuedAt, n, now)
  /\ sres' = PageResponse(n)

\* GET /: the page with a fresh nonce in its meta tag, or 404.
PageLoad ==
  /\ spc = "idle"
  /\ spc' = "done"
  /\ IF ~indexHtmlTemplate
     THEN sres' = NotBuilt /\ UNCHANGED <<sessionNonces, issuedAt>>
     ELSE \E n \in Nonces \ DOMAIN issuedAt : GenerateNonce(n)
  /\ UNCHANGED <<REQUIRE_NONCE, indexHtmlTemplate, now, presented, tokens>>
  /\ UNCHANGED <<handlerVars, parked>>

\* res.json({ token }): one more token handed out for the nonce that was
\* consumed, or for none when the header was not read.
Issue(h) ==
  /\ sres' = TokenResponse
  /\ tokens' = [tokens EXCEPT ![h] = IF @ < MaxTokens THEN @ + 1 ELSE @]

\* GET /api/session with x-session-nonce: h.
Session(h) ==
  /\ spc' = "done"
  /\ presented' = h
  /\ IF REQUIRE_NONCE
     THEN IF h = NoNonce
          THEN sres' = InvalidNonce /\ UNCHANGED <<sessionNonces, tokens>>
          ELSE /\ sessionNonces' = AfterConsume(sessionNonces, h)
               /\ IF ConsumeNonce(sessionNonces, h, now)
                  THEN Issue(h)
                  ELSE sres' = InvalidNonce /\ UNCHANGED tokens
     ELSE Issue(NoNonce) /\ UNCHANGED sessionNonces
  /\ UNCHANGED <<REQUIRE_NONCE, indexHtmlTemplate, now, issuedAt>>
  /\ UNCHANGED <<handlerVars, parked>>

GetSession == spc = "idle" /\ \E h \in NonceHeaders : Session(h)

\* The setInterval callback runs.
Sweep ==
  /\ spc = "idle"
  /\ spc' = "swept"
  /\ sessionNonces' = Swept(sessionNonces, now)
  /\ UNCHANGED <<REQUIRE_NONCE, indexHtmlTemplate, now, presented, sres,
                 issuedAt, tokens>>
  /\ UNCHANGED <<handlerVars, parked>>

\* The callback has returned to the event loop.
SweepReturns ==
  /\ spc = "swept"
  /\ spc' = "idle"
  /\ UNCHANGED <<REQUIRE_NONCE, indexHtmlTemplate, sessionNonces, now, presented,
                 sres, issuedAt, tokens>>
  /\ UNCHANGED <<handlerVars, parked>>

\* A minute passes.
Tick ==
  /\ spc = "idle"
  /\ now < MaxTime
  /\ now' = now + 1
  /\ UNCHANGED <<REQUIRE_NONCE, indexHtmlTemplate, sessionNonces, spc, presented,
                 sres, issuedAt, tokens>>
  /\ UNCHANGED <<handlerVars, parked>>

\* The response is out; the server waits for the next session request.
SessionAnswered ==
  /\ spc = "done"
  /\ spc' = "idle"
  /\ presented' = NoNonce
  /\ sres' = NoSessionResponse
  /\ UNCHANGED <<REQUIRE_NONCE, indexHtmlTemplate, sessionNonces, now, issuedAt, tokens>>
  /\ UNCHANGED <<handlerVars, parked>>

SessionNext ==
  \/ PageLoad
  \/ GetSession
  \/ Sweep
  \/ SweepReturns
  \/ Tick
  \/ SessionAnswered

SessionSpec == SessionInit /\ [][SessionNext]_vars

\* ------------------------------------------------- two requests in flight
\* A few requests, fetch replies and analysis replies, enough for every path
\* through the handler.
ConcurrentBodies ==
  { [text |-> Str(<<"a">>), url |-> Undefined],
    [text |-> Str(<<" ">>), url |-> Undefined],
    [text |-> Undefined, url |-> Str(<<"a", ":">>)],
    [text |-> Str(<<"a">>), url |-> Str(<<"a", ":">>)],
    [text |-> Undefined, url |-> Undefined] }

ConcurrentQueries ==
  {q \in QueriesFew : q.summarize \in {Undefined, Str(S_v1)}}

ConcurrentAuth(v) == IF RequiresSession(v) THEN {Bearer("valid"), Bearer("forged")} ELSE {NoAuth}

ConcurrentRequests(v) ==
  [body : ConcurrentBodies, query : ConcurrentQueries,
   headers : [requestId : RequestIds, authorization : ConcurrentAuth(v)]]

ConcurrentFetchReplies ==
  {f \in FetchReplies : f.kind = "response" => f.body \in {<<"a">>, <<" ">>}}

ConcurrentAnalyzeReplies ==
  {a \in AnalyzeReplies :
     /\ a.kind = "result" => a.results \in {NoResults, ResultsWith({"summary", "extra"})}
     /\ a.kind \in {"error", "throw"} => a.message \in {<<>>, <<"text">>}}

\* The running invocation's frame.
Frame ==
  [pc |-> pc, req |-> req, hdr |-> hdr, upstream |-> upstream,
   textContent |-> textContent, options |-> options, reply |-> reply,
   res |-> res, calls |-> calls]

\* Fault: the handler keeps the request in a variable of the module, which
\* the other invocation overwrites.
LocalRequest_Shared(f) == req

\* (req, res) are parameters of the handler: each invocation has its own.
LocalRequest(f) == f.req

\* The event loop resumes the other invocation: its frame comes back as it
\* was left.
Resume ==
  /\ parked' = Frame
  /\ pc' = parked.pc
  /\ req' = LocalRequest(parked)
  /\ hdr' = parked.hdr
  /\ upstream' = parked.upstream
  /\ textContent' = parked.textContent
  /\ options' = parked.options
  /\ reply' = parked.reply
  /\ res' = parked.res
  /\ calls' = parked.calls
  /\ UNCHANGED <<variant, sessionVars>>

Arrive ==
  /\ pc = "idle"
  /\ UNCHANGED <<parked, sessionVars>>
  /\ \E r \in ConcurrentRequests(variant) : Handle(r)

FetchReplied ==
  /\ pc = "fetching"
  /\ UNCHANGED <<parked, sessionVars>>
  /\ \E f \in ConcurrentFetchReplies : FetchSettles(f)

AnalyzeReplied ==
  /\ pc = "analyzing"
  /\ UNCHANGED <<parked, sessionVars>>
  /\ \E a \in ConcurrentAnalyzeReplies : AnalyzeSettles(a)

ConcurrentNext ==
  \/ Arrive
  \/ FetchReplied
  \/ TextReturns
  \/ AnalyzeReplied
  \/ NextRequest
  \/ Resume

ConcurrentSpec == Init /\ [][ConcurrentNext]_vars

\* ------------------------------------------- external calls that do settle
\* One request at a time, each external call settling in the end: a pending
\* await fetch(url), await response.text() or await analyzeText(...) is not
\* left pending for ever.
FairNext ==
  \/ Arrive
  \/ FetchReplied
  \/ TextReturns
  \/ AnalyzeReplied
  \/ NextRequest

FairSpec ==
  /\ Init
  /\ [][FairNext]_vars
  /\ WF_vars(FetchReplied)
  /\ WF_vars(TextReturns)
  /\ WF_vars(AnalyzeReplied)

\* ------------------------------------------------------------------ claims
\* The variants with the strict checks: server.js, part_001, part_002.
StrictVariants == {"server", "vite", "session"}

\* The request got past requireSession (every request, where there is none).
Admitted == variant # "session" \/ req.headers.authorization = Bearer("valid")

OnlySpaces(s) == \A i \in 1..Len(s) : s[i] = " "

IsValidationError(code) ==
  /\ res.status = 400
  /\ res.type = "validation_error"
  /\ res.code = code

\* C1: a request whose body has neither text nor url is answered 400
\* validation_error INVALID_TEXT, and neither the URL fetch nor the analysis
\* service is called for it.
C1_MissingBoth ==
  (pc = "done" /\ Admitted /\ req.body.text = Undefined /\ req.body.url = Undefined)
    => (IsValidationError("INVALID_TEXT") /\ calls = NoCalls)

C1_Witness ==
  /\ pc = "done" /\ Admitted
  /\ req.body.text = Undefined /\ req.body.url = Undefined
  /\ res.code = "INVALID_TEXT"

\* C2: in the strict variants every request whose body has both text and url
\* set (non-empty, which is how the code and the data model read presence)
\* is answered 400 validation_error INVALID_TEXT, whatever the two values and
\* the query, and the URL is never fetched.
C2_BothNonEmpty ==
  (pc # "idle" /\ Admitted /\ variant \in StrictVariants
     /\ Truthy(req.body.text) /\ Truthy(req.body.url))
    => (pc = "done" /\ IsValidationError("INVALID_TEXT") /\ calls = NoCalls)

C2_Witness ==
  /\ pc = "done" /\ variant = "server"
  /\ req.body.text = Str(<<"a">>) /\ req.body.url = Str(<<"a", ":">>)
  /\ req.query.topics = Str(S_true)
  /\ res.code = "INVALID_TEXT"

\* C3: whenever the resolved text content (the text field, or the body
\* fetched from url) consists only of white space, the response is 400
\* EMPTY_TEXT and the analysis service is not called.
C3_BlankText ==
  (textContent.t = "string" /\ OnlySpaces(textContent.v))
    => (pc = "done" /\ IsValidationError("EMPTY_TEXT") /\ calls.analyze = 0)

C3_Witness ==
  /\ pc = "done"
  /\ upstream.kind = "response" /\ upstream.ok /\ upstream.body = <<" ", " ">>
  /\ textContent = Str(<<" ", " ">>)
  /\ res.code = "EMPTY_TEXT"

\* A well-formed absolute URL: optional spaces around a scheme of letters
\* followed by ':' and anything.
WellFormedURL(s) ==
  \E i \in 1..Len(s) : \E j \in (i + 1)..Len(s) :
    /\ \A k \in 1..(i - 1) : s[k] = " "
    /\ \A k \in i..(j - 1) : s[k] = "a"
    /\ s[j] = ":"

\* C4 as stated: in every variant, a request that carries a url which is not
\* a well-formed absolute URL, and no text, is answered 400 INVALID_URL and
\* nothing is fetched.
C4_Original ==
  (pc = "done" /\ Admitted /\ req.body.text = Undefined
     /\ req.body.url.t = "string" /\ Len(req.body.url.v) > 0
     /\ ~WellFormedURL(req.body.url.v))
    => (res.status = 400 /\ res.code = "INVALID_URL" /\ calls.fetch = 0)

\* C4 amended: in every variant but the minimal text-only one, a request
\* that carries a (non-empty) url which is not a well-formed absolute URL,
\* and no text, is answered 400 validation_error INVALID_URL and nothing is
\* fetched; the minimal variant does not read url and answers INVALID_TEXT.
C4_MalformedUrl ==
  (pc # "idle" /\ Admitted /\ req.body.text = Undefined
     /\ req.body.url.t = "string" /\ Len(req.body.url.v) > 0
     /\ ~WellFormedURL(req.body.url.v))
    => /\ pc = "done"
       /\ calls = NoCalls
       /\ IF variant = "minimal"
          THEN IsValidationError("INVALID_TEXT")
          ELSE IsValidationError("INVALID_URL")

C4_Witness ==
  /\ pc = "done" /\ Admitted /\ variant = "session"
  /\ req.body.text = Undefined /\ req.body.url = Str(<<"a", "a">>)
  /\ res.code = "INVALID_URL"

\* C5: when the URL fetch returns a non-2xx status or fails with a network
\* error the response is 400 INVALID_URL whatever the upstream body: the body
\* is never read into textContent, the emptiness check is not reached and the
\* analysis service is not called.
C5_FetchFailure ==
  (upstream.kind = "reject" \/ (upstream.kind = "response" /\ ~upstream.ok))
    => /\ pc = "done"
       /\ IsValidationError("INVALID_URL")
       /\ textContent = Undefined
       /\ calls.analyze = 0

C5_Witness ==
  /\ pc = "done"
  /\ upstream.kind = "response" /\ ~upstream.ok /\ upstream.body = <<"a">>
  /\ res.code = "INVALID_URL"

\* C6: in the variants with the version check, summarize=v1 is answered 400
\* INVALID_TEXT once the text is resolved and not blank, and never reaches
\* the analysis service; summarize=v2 and summarize=true reach the analysis
\* call, the first as the string "v2" and the second as boolean true.
C6_SummarizeVersions ==
  /\ (variant \in StrictVariants /\ req.query.summarize = Str(S_v1))
       => (calls.analyze = 0 /\ (pc = "done" /\ Admitted => res.status = 400))
  /\ (variant \in StrictVariants /\ textContent.t = "string" /\ ~OnlySpaces(textContent.v))
    => /\ req.query.summarize = Str(S_v1)
            => (pc = "done" /\ IsValidationError("INVALID_TEXT") /\ calls.analyze = 0)
       /\ req.query.summarize = Str(S_v2)
            => (calls.analyze = 1 /\ options.summarize = Str(S_v2))
       /\ req.query.summarize \in {Str(S_true), JsTrue}
            => (calls.analyze = 1 /\ options.summarize = JsTrue)

C6_Witness ==
  /\ pc = "done" /\ variant = "server"
  /\ req.query.summarize = Str(S_v1)
  /\ textContent = Str(<<"a">>)
  /\ res.code = "INVALID_TEXT"

\* C7: if the request supplies X-Request-Id, the response carries the same
\* X-Request-Id on every response path, errors included.
C7_RequestIdEchoed ==
  (pc = "done" /\ Admitted /\ Truthy(req.headers.requestId))
    => hdr = req.headers.requestId

\* The feature a key of the results belongs to was asked for in the query.
Requested(k) ==
  \/ k = "summary" /\ req.query.summarize \in {Str(S_true), JsTrue, Str(S_v2)}
  \/ k = "sentiments" /\ req.query.sentiment \in {Str(S_true), JsTrue}
  \/ k = "topics" /\ req.query.topics \in {Str(S_true), JsTrue}
  \/ k = "intents" /\ req.query.intents \in {Str(S_true), JsTrue}

\* C8 as stated: the results of a 200 response keep only the recognized keys
\* and only those of the requested features; every other key of the service's
\* results is discarded.
C8_Original ==
  (pc = "done" /\ res.status = 200)
    => \A k \in ResultKeys :
         res.results[k] # Undefined => (k \in RecognizedKeys /\ Requested(k))

\* C8 amended: the results of a 200 response are, in server.js, part_001 and
\* part_002, the service's results object unchanged with whatever keys it
\* holds ({} when it has none), and in the part_000 variants the single key
\* summary holding the service's summary, or {} when there is none; no
\* variant filters by recognized key or by requested feature.
C8_ResultsShaping ==
  (pc = "done" /\ res.status = 200)
    => /\ reply.kind = "result"
       /\ variant \in StrictVariants => res.results = reply.results
       /\ variant \notin StrictVariants =>
            /\ \A k \in ResultKeys \ {"summary"} : res.results[k] = Undefined
            /\ res.results["summary"] =
                 IF reply.results["summary"] # Undefined
                 THEN reply.results["summary"] ELSE EmptyObj

C8_Witness ==
  /\ pc = "done" /\ res.status = 200 /\ variant = "server"
  /\ req.query.summarize = Str(S_true) /\ req.query.topics = Undefined
  /\ res.results["extra"] = ObjOf("extra")
  /\ res.results["summary"] = ObjOf("summary")

\* C9: the options of the analysis call come from the query alone: language
\* is the supplied value, or "en" when none (or an empty one) is supplied;
\* each of topics, sentiment and intents is true exactly when its own
\* parameter is "true" or true, and otherwise absent (server.js, part_001,
\* part_002).
C9_OptionMapping ==
  (calls.analyze = 1 /\ variant \in StrictVariants)
    => /\ options.language =
            IF req.query.language \in {Undefined, Str(<<>>)}
            THEN Str(S_en) ELSE req.query.language
       /\ \A k \in {"topics", "sentiment", "intents"} :
            options[k] = IF req.query[k] \in {Str(S_true), JsTrue}
                         THEN JsTrue ELSE Undefined

C9_Witness ==
  /\ pc = "analyzing" /\ variant = "server"
  /\ req.query.language = Str(S_es)
  /\ req.query.topics = Str(S_true)
  /\ req.query.sentiment = Str(S_false)
  /\ req.query.intents = Undefined
  /\ options.topics = JsTrue /\ options.sentiment = Undefined
  /\ options.intents = Undefined /\ options.language = Str(S_es)

\* A scalar wrapped into a one-element array; an array as it is.
AsArray(x) == IF x.t = "string" THEN Arr(<<x.v>>) ELSE x

\* C10 as stated: when the query carries custom_topic (custom_intent), the
\* options of the analysis call hold it as an array of strings and have
\* topics (intents) set to true.
C10_Original ==
  calls.analyze = 1
    => /\ req.query.custom_topic # Undefined =>
            (options.custom_topic = AsArray(req.query.custom_topic)
               /\ options.topics = JsTrue)
       /\ req.query.custom_intent # Undefined =>
            (options.custom_intent = AsArray(req.query.custom_intent)
               /\ options.intents = JsTrue)

\* C10 amended: no variant reads custom_topic or custom_intent: the options
\* of the analysis call never hold either, and topics (intents) is true
\* only when its own parameter is "true" or true, in a variant that maps it.
C10_CustomIgnored ==
  calls.analyze = 1
    => /\ options.custom_topic = Undefined
       /\ options.custom_intent = Undefined
       /\ \A k \in {"topics", "intents"} :
            options[k] = IF variant \in StrictVariants
                            /\ req.query[k] \in {Str(S_true), JsTrue}
                         THEN JsTrue ELSE Undefined

C10_Witness ==
  /\ pc = "analyzing" /\ variant = "session"
  /\ req.query.custom_topic = Str(<<"t">>)
  /\ req.query.custom_intent = Arr(<< <<"t">>, <<"u">> >>)
  /\ req.query.topics = Undefined
  /\ options.topics = Undefined /\ options.custom_topic = Undefined

\* C11: when the analysis call returns an error object the response is 400
\* processing_error INVALID_TEXT; its message is the error's message, or
\* 'Failed to process text' when the error has none; no results are returned.
C11_SdkError ==
  reply.kind = "error"
    => /\ pc = "done"
       /\ res.status = 400
       /\ res.type = "processing_error"
       /\ res.code = "INVALID_TEXT"
       /\ res.message = IF reply.message = <<>>
                        THEN <<"Failed to process text">> ELSE reply.message
       /\ res.results = NoResults

C11_Witness ==
  /\ pc = "done" /\ reply.kind = "error" /\ reply.message = <<>>
  /\ res.status = 400 /\ res.message = <<"Failed to process text">>

\* C12: an exception thrown inside the handler is answered processing_error
\* with status 500, unless its message contains "text" (400 INVALID_TEXT) or
\* contains "too long" (400 TEXT_TOO_LONG); every exception whose message
\* contains "too long" is reported as TEXT_TOO_LONG.
C12_ExceptionClassified ==
  reply.kind = "throw"
    => /\ pc = "done"
       /\ res.type = "processing_error"
       /\ Includes(reply.message, "text") \/ Includes(reply.message, "too long")
            \/ res.status = 500
       /\ (Includes(reply.message, "text") /\ ~Includes(reply.message, "too long"))
            => (res.status = 400 /\ res.code = "INVALID_TEXT")
       /\ Includes(reply.message, "too long")
            => (res.status = 400 /\ res.code = "TEXT_TOO_LONG")

\* C13: the analysis service is called only after every validation step has
\* passed: a request answered with a validation_error (INVALID_TEXT,
\* INVALID_URL or EMPTY_TEXT) never had the analysis call issued, and a
\* request whose analysis call was issued had a resolved text that is not
\* blank, a fetch (if any) that succeeded, and no rejected summarize version.
C13_ValidationBeforeAnalysis ==
  /\ (pc = "done" /\ res.type = "validation_error")
       => /\ res.status = 400
          /\ res.code \in {"INVALID_TEXT", "INVALID_URL", "EMPTY_TEXT"}
          /\ calls.analyze = 0
          /\ reply = NoAnalyzeReply
  /\ calls.analyze > 0
       => /\ textContent.t = "string" /\ ~OnlySpaces(textContent.v)
          /\ calls.fetch > 0 => (upstream.kind = "response" /\ upstream.ok)
          /\ variant \in StrictVariants => req.query.summarize # Str(S_v1)
          /\ res.type # "validation_error"

C13_Witness ==
  /\ pc = "done" /\ res.type = "validation_error" /\ res.code = "EMPTY_TEXT"
  /\ calls.fetch = 1 /\ calls.analyze = 0
  /\ upstream.kind = "response" /\ upstream.ok

\* C14 as stated: in every variant a request is processed only if exactly one
\* of text and url is present and non-empty; a request with both, or with
\* neither, always ends in a validation error and is never resolved by
\* picking one field and ignoring the other.
C14_Original ==
  (pc # "idle" /\ Admitted /\ Truthy(req.body.text) = Truthy(req.body.url))
    => (pc = "done" /\ res.type = "validation_error" /\ calls = NoCalls)

\* C14 amended: a request with neither field ends in the validation error
\* INVALID_TEXT in every variant. A request with both fields ends in
\* INVALID_TEXT in server.js, part_001 and part_002 only; the multipart
\* variant resolves it from url and ignores text, and the minimal variant,
\* which never reads url, resolves it from text.
C14_ExactlyOne ==
  (pc # "idle" /\ Admitted)
    => /\ (~Truthy(req.body.text) /\ ~Truthy(req.body.url))
            => (pc = "done" /\ IsValidationError("INVALID_TEXT") /\ calls = NoCalls)
       /\ (Truthy(req.body.text) /\ Truthy(req.body.url))
            => CASE variant \in StrictVariants ->
                      pc = "done" /\ IsValidationError("INVALID_TEXT") /\ calls = NoCalls
                 [] variant = "multipart" ->
                      /\ textContent \in {Undefined, Str(upstream.body)}
                      /\ \/ calls.fetch = 1
                         \/ pc = "done" /\ IsValidationError("INVALID_URL") /\ calls = NoCalls
                 [] variant = "minimal" ->
                      calls.fetch = 0 /\ textContent = req.body.text

C14_Witness ==
  /\ variant = "multipart" /\ pc = "analyzing"
  /\ req.body.text = Str(<<"a">>) /\ req.body.url = Str(<<"a", ":">>)
  /\ calls.fetch = 1 /\ textContent = Str(<<" ", "a">>)

\* C15: in the session variant a request without an Authorization header
\* starting with "Bearer " is answered 401 AuthenticationError MISSING_TOKEN,
\* and one whose bearer token fails verification (forged or expired) is
\* answered 401 AuthenticationError INVALID_TOKEN; in both cases the handler
\* never runs: no URL fetch, no analysis call, no text resolved.
C15_SessionRequired ==
  (variant = "session" /\ pc # "idle"
     /\ req.headers.authorization # Bearer("valid"))
    => /\ pc = "done"
       /\ res.status = 401
       /\ res.type = "AuthenticationError"
       /\ res.code = IF req.headers.authorization.scheme = "Bearer"
                     THEN "INVALID_TOKEN" ELSE "MISSING_TOKEN"
       /\ calls = NoCalls
       /\ textContent = Undefined
       /\ options = NoOptions

C15_Witness ==
  /\ variant = "session" /\ pc = "done"
  /\ req.headers.authorization = Bearer("expired")
  /\ req.body.text = Undefined /\ req.body.url = Str(<<"a", ":">>)
  /\ res.status = 401 /\ res.code = "INVALID_TOKEN"

\* C16: when nonce validation is enforced each nonce is single-use. Over any
\* interleaving of page loads, GET /api/session requests, sweeps and the
\* passing of time, a nonce leads to at most one token, it is out of the
\* store once it has, and every later request that presents it is answered
\* 403 INVALID_NONCE without a token.
C16_SingleUse ==
  /\ [](REQUIRE_NONCE =>
          \A n \in Nonces :
            /\ tokens[n] <= 1
            /\ tokens[n] = 1 => n \notin DOMAIN sessionNonces)
  /\ [][\A n \in Nonces :
          (REQUIRE_NONCE /\ tokens[n] >= 1
             /\ spc = "idle" /\ spc' = "done" /\ presented' = n)
            => (sres' = InvalidNonce /\ tokens'[n] = tokens[n])]_vars

C16_Witness ==
  /\ REQUIRE_NONCE /\ spc = "done"
  /\ presented = 1 /\ tokens[1] = 1
  /\ 1 \in DOMAIN issuedAt /\ now < issuedAt[1] + NONCE_TTL
  /\ sres.status = 403 /\ sres.code = "INVALID_NONCE" /\ ~sres.token

\* The step of server.js's pipeline at which the request being handled fails
\* first, from the request and the replies it got: "presence", "url"
\* (parsing, fetching or reading it), "empty", "options", or "none"; and
\* "pending" while the URL is being fetched or read.
FirstFailingStep ==
  LET t == req.body.text
      u == req.body.url
  IN
  IF Truthy(t) = Truthy(u) THEN "presence"
  ELSE IF Truthy(u) /\ ~WellFormedURL(u.v) THEN "url"
  ELSE IF Truthy(u) /\ pc \in {"fetching", "reading"} THEN "pending"
  ELSE IF Truthy(u) /\ ~(upstream.kind = "response" /\ upstream.ok) THEN "url"
  ELSE IF OnlySpaces(IF Truthy(u) THEN upstream.body ELSE t.v) THEN "empty"
  ELSE IF req.query.summarize = Str(S_v1) THEN "options"
  ELSE "none"

\* C17: in server.js, part_001 and part_002 the steps run in the order
\* presence check, URL resolution, emptiness check, option mapping,
\* delegation, and the first failing step alone determines the response:
\* white-space-only text with summarize=v1 gets EMPTY_TEXT, not the v1
\* rejection, and both fields with a malformed url get INVALID_TEXT, not
\* INVALID_URL. A later step leaves no trace: nothing is fetched before the
\* presence check and the URL parse passed, and no options are built before
\* the emptiness check passed.
C17_FixedOrder ==
  (pc # "idle" /\ Admitted /\ variant \in StrictVariants)
    => CASE FirstFailingStep = "presence" ->
              /\ pc = "done" /\ IsValidationError("INVALID_TEXT")
              /\ calls = NoCalls /\ options = NoOptions
         [] FirstFailingStep = "url" ->
              /\ pc = "done" /\ IsValidationError("INVALID_URL")
              /\ calls.analyze = 0 /\ options = NoOptions
              /\ textContent = Undefined
         [] FirstFailingStep = "empty" ->
              /\ pc = "done" /\ IsValidationError("EMPTY_TEXT")
              /\ calls.analyze = 0 /\ options = NoOptions
         [] FirstFailingStep = "options" ->
              /\ pc = "done" /\ IsValidationError("INVALID_TEXT")
              /\ calls.analyze = 0
         [] FirstFailingStep = "none" ->
              /\ calls.analyze = 1
              /\ res.type # "validation_error"
         [] FirstFailingStep = "pending" ->
              /\ pc \in {"fetching", "reading"}
              /\ calls = [fetch |-> 1, analyze |-> 0]
              /\ options = NoOptions

C17_Witness ==
  /\ pc = "done" /\ variant = "server"
  /\ req.body.text = Str(<<" ", " ">>) /\ req.body.url = Undefined
  /\ req.query.summarize = Str(S_v1)
  /\ res.code = "EMPTY_TEXT"

\* C18 as stated: a validation failure that does not arise from the URL
\* fetch (missing fields, both fields, unsupported summarize version: the
\* validation errors with code INVALID_TEXT) is reported before any external
\* call: the request caused neither a URL fetch nor an analysis call.
C18_Original ==
  (pc = "done" /\ Admitted /\ IsValidationError("INVALID_TEXT"))
    => calls = NoCalls

\* C18 amended: such a failure is reported before the analysis call is
\* issued, and the missing-fields and both-fields failures before any
\* external call; the unsupported summarize version is checked after the
\* text is resolved, so for a request that supplies url it is reported after
\* the URL was fetched (once, successfully) and read.
C18_ReportedBeforeCalls ==
  (pc = "done" /\ Admitted /\ IsValidationError("INVALID_TEXT"))
    => /\ calls.analyze = 0
       /\ IF variant \in StrictVariants
             /\ ~Truthy(req.body.text) /\ Truthy(req.body.url)
          THEN /\ req.query.summarize = Str(S_v1)
               /\ calls.fetch = 1
               /\ upstream.kind = "response" /\ upstream.ok
               /\ textContent = Str(upstream.body)
          ELSE calls.fetch = 0

C18_Witness ==
  /\ pc = "done" /\ variant = "session" /\ Admitted
  /\ req.body.text = Undefined /\ req.body.url = Str(<<"a", ":">>)
  /\ req.query.summarize = Str(S_v1)
  /\ IsValidationError("INVALID_TEXT")
  /\ calls = [fetch |-> 1, analyze |-> 0]

\* C19: nothing is retried. On every path through the handler one request
\* causes at most one URL fetch and at most one analysis call, and a 200
\* response is sent only when the analysis call was made exactly once and
\* returned without an error.
C19_NothingRetried ==
  /\ calls.fetch <= 1
  /\ calls.analyze <= 1
  /\ (pc = "done" /\ res.status = 200)
       => (calls.analyze = 1 /\ reply.kind = "result")
  /\ (pc = "done" /\ upstream.kind \in {"reject", "unreadable"})
       => (calls.fetch = 1 /\ res.status = 400)
  /\ (pc = "done" /\ reply.kind \in {"error", "throw"})
       => (calls.analyze = 1 /\ res.status \in {400, 500})

C19_Witness ==
  /\ pc = "done" /\ res.status = 200
  /\ calls = [fetch |-> 1, analyze |-> 1]
  /\ upstream.kind = "response" /\ reply.kind = "result"

\* The instant the nonce n expires: its issue time plus five minutes.
ExpiryOf(n) == issuedAt[n] + NONCE_TTL

\* C20: when nonce validation is enforced a token is issued only for a nonce
\* presented strictly before its expiry (issue time + 5 minutes). A request
\* with a missing, unknown or expired nonce is answered 403 INVALID_NONCE
\* without a token, also when the sweep has not yet removed the expired
\* nonce; and presenting an expired nonce removes it from the store.
C20_IssuedBeforeExpiry ==
  /\ [](REQUIRE_NONCE =>
          /\ \A n \in DOMAIN sessionNonces :
                n \in DOMAIN issuedAt /\ sessionNonces[n] = ExpiryOf(n)
          /\ (spc = "done" /\ sres.token)
               => (presented \in DOMAIN issuedAt /\ now < ExpiryOf(presented))
          /\ (spc = "done" /\ sres \in {InvalidNonce, TokenResponse}
                 /\ \/ presented = NoNonce
                    \/ presented \notin DOMAIN issuedAt
                    \/ now >= ExpiryOf(presented))
               => (sres = InvalidNonce /\ presented \notin DOMAIN sessionNonces))
  /\ [][\A n \in Nonces :
          (REQUIRE_NONCE /\ spc = "idle" /\ spc' = "done" /\ presented' = n
             /\ n \in DOMAIN sessionNonces /\ now >= sessionNonces[n])
            => /\ sres' = InvalidNonce
               /\ tokens' = tokens
               /\ n \notin DOMAIN sessionNonces']_vars

C20_Witness ==
  /\ REQUIRE_NONCE /\ spc = "done"
  /\ presented = 1 /\ 1 \in DOMAIN issuedAt
  /\ now = ExpiryOf(1)
  /\ sres = InvalidNonce /\ tokens[1] = 0
  /\ 1 \notin DOMAIN sessionNonces

\* C21: each run of the periodic sweep removes from the nonce store all and
\* only the nonces whose expiry is at or before the current time. So, under
\* any interleaving of generate, consume and sweep, a nonce that is
\* unconsumed and unexpired stays in the store with its expiry and is still
\* accepted; and once the sweep has run at or after a nonce's expiry the
\* nonce is out of the store, for good.
C21_SweepExact ==
  /\ [][(spc = "idle" /\ spc' = "swept")
          => /\ DOMAIN sessionNonces' =
                  {n \in DOMAIN sessionNonces : now < sessionNonces[n]}
             /\ \A n \in DOMAIN sessionNonces' : sessionNonces'[n] = sessionNonces[n]]_vars
  /\ [](spc = "swept" =>
          \A n \in DOMAIN issuedAt : now >= ExpiryOf(n) => n \notin DOMAIN sessionNonces)
  /\ [](\A n \in DOMAIN issuedAt :
          (now < ExpiryOf(n) /\ tokens[n] = 0)
            => (n \in DOMAIN sessionNonces /\ sessionNonces[n] = ExpiryOf(n)))
  /\ [][\A n \in Nonces :
          (REQUIRE_NONCE /\ spc = "idle" /\ spc' = "done" /\ presented' = n
             /\ n \in DOMAIN issuedAt /\ now < ExpiryOf(n) /\ tokens[n] = 0)
            => (sres' = TokenResponse /\ tokens'[n] = 1)]_vars
  /\ [][\A n \in DOMAIN issuedAt :
          n \notin DOMAIN sessionNonces => n \notin DOMAIN sessionNonces']_vars

C21_Witness ==
  /\ spc = "swept"
  /\ DOMAIN issuedAt = {1, 2}
  /\ now = ExpiryOf(1) /\ now < ExpiryOf(2)
  /\ tokens[1] = 0 /\ tokens[2] = 0
  /\ DOMAIN sessionNonces = {2}

\* What goes out for a request, as its client and the two services see it.
Outcome(f) ==
  [status |-> f.res.status, type |-> f.res.type, code |-> f.res.code,
   results |-> f.res.results, requestId |-> f.hdr, calls |-> f.calls]

Out(status, type, code, results, echoed, fetches, analyses) ==
  [status |-> status, type |-> type, code |-> code, results |-> results,
   requestId |-> echoed, calls |-> [fetch |-> fetches, analyze |-> analyses]]

\* The outcome of the request r run alone in variant v, when its fetch (if it
\* makes one) is answered f and its analysis call (if it makes one) is
\* answered a.
AloneOutcome(v, r, f, a) ==
  LET text == r.body.text
      url == IF v = "minimal" THEN Undefined ELSE r.body.url
      echoed == IF v \in {"multipart", "minimal", "vite"} /\ Truthy(r.headers.requestId)
                THEN r.headers.requestId ELSE Undefined
      Invalid(code, nf) == Out(400, "validation_error", code, NoResults, echoed, nf, 0)
      Analysed(nf) ==
        IF a.kind = "error"
        THEN Out(400, "processing_error", "INVALID_TEXT", NoResults, echoed, nf, 1)
        ELSE IF a.kind = "throw"
        THEN Out(IF Includes(a.message, "text") \/ Includes(a.message, "too long")
                 THEN 400 ELSE 500,
                 "processing_error",
                 IF ~Includes(a.message, "text") /\ Includes(a.message, "too long")
                 THEN "TEXT_TOO_LONG" ELSE "INVALID_TEXT",
                 NoResults, echoed, nf, 1)
        ELSE Out(200, "", "",
                 IF v \in StrictVariants THEN a.results
                 ELSE [NoResults EXCEPT !["summary"] =
                         IF a.results["summary"] # Undefined
                         THEN a.results["summary"] ELSE EmptyObj],
                 echoed, nf, 1)
      Resolved(tc, nf) ==
        IF OnlySpaces(tc) THEN Invalid("EMPTY_TEXT", nf)
        ELSE IF v \in StrictVariants /\ r.query.summarize = Str(S_v1)
        THEN Invalid("INVALID_TEXT", nf)
        ELSE Analysed(nf)
  IN
  IF v = "session" /\ r.headers.authorization # Bearer("valid")
  THEN Out(401, "AuthenticationError",
           IF r.headers.authorization.scheme = "Bearer"
           THEN "INVALID_TOKEN" ELSE "MISSING_TOKEN",
           NoResults, Undefined, 0, 0)
  ELSE IF ~Truthy(text) /\ ~Truthy(url) THEN Invalid("INVALID_TEXT", 0)
  ELSE IF v \in StrictVariants /\ Truthy(text) /\ Truthy(url)
  THEN Invalid("INVALID_TEXT", 0)
  ELSE IF Truthy(url)
  THEN IF ~WellFormedURL(url.v) THEN Invalid("INVALID_URL", 0)
       ELSE IF ~(f.kind = "response" /\ f.ok) THEN Invalid("INVALID_URL", 1)
       ELSE Resolved(f.body, 1)
  ELSE Resolved(text.v, 0)

\* C22: requests to the analyze endpoint are independent. Whatever the
\* interleaving of two requests at their suspension points (the URL fetch,
\* the reading of its body, the analysis call), the response to each, with
\* its header and the calls made for it, is the one the request gets when
\* run alone: a function of its own body, query and headers and of the
\* replies to its own calls. A suspended invocation finds its frame as it
\* left it.
C22_Independent ==
  /\ [](pc = "done" => Outcome(Frame) = AloneOutcome(variant, req, upstream, reply))
  /\ [](parked.pc = "done"
          => Outcome(parked) =
               AloneOutcome(variant, parked.req, parked.upstream, parked.reply))
  /\ [][(parked' # parked /\ Frame' # Frame)
          => (parked' = Frame /\ Frame' = parked)]_vars
  /\ [][parked' # parked => Frame' = parked]_vars

C22_Witness ==
  /\ variant = "vite" /\ pc = "done" /\ parked.pc = "analyzing"
  /\ req.body.url = Str(<<"a", ":">>) /\ req.body.text = Undefined
  /\ req.headers.requestId = Undefined
  /\ upstream.kind = "response" /\ upstream.ok
  /\ res.status = 200 /\ hdr = Undefined
  /\ calls = [fetch |-> 1, analyze |-> 1]
  /\ parked.req.body.text = Str(<<"a">>) /\ parked.req.body.url = Undefined
  /\ parked.req.headers.requestId = Str(S_abc123)
  /\ parked.hdr = Str(S_abc123)
  /\ parked.calls = [fetch |-> 0, analyze |-> 1]

\* C23: provided each external call (URL fetch, reading of the fetched body,
\* analysis call) eventually returns or fails, every request to the analyze
\* endpoint eventually receives exactly one response.  A request that has
\* arrived is answered in the end, whatever the external calls answer or
\* throw; the handler is finished exactly when a JSON response (status 200,
\* 400, 401 or 500) is out; and a response that is out is never replaced by
\* a second one for the same request.
C23_OneResponse ==
  /\ (pc # "idle") ~> (pc = "done")
  /\ [](pc = "done" <=> res # NoResponse)
  /\ [](res # NoResponse => res.status \in {200, 400, 401, 500})
  /\ [][res # NoResponse => (res' = res \/ (pc' = "idle" /\ res' = NoResponse))]_vars

\* The fetch returned a page, the analysis call threw, and the catch block
\* answered with status 500.
C23_Witness ==
  /\ variant \in {"server", "vite"}
  /\ pc = "done"
  /\ upstream.kind = "response" /\ upstream.ok
  /\ reply.kind = "throw" /\ reply.message = <<>>
  /\ calls = [fetch |-> 1, analyze |-> 1]
  /\ res = Err(500, "processing_error", "INVALID_TEXT", <<"Text processing failed">>)

\* C24: field presence is decided by truthiness.  A request whose text is
\* the empty string and which has no url is rejected at the presence check:
\* 400 validation_error INVALID_TEXT with the presence check's message, the
\* text content never assigned, no external call.  And when EMPTY_TEXT
\* answers a request whose text came from the body (nothing was fetched),
\* that text is a non-empty string of white space only.
C24_PresenceByTruthiness ==
  /\ (pc # "idle" /\ Admitted
        /\ req.body.text = Str(<<>>) /\ req.body.url = Undefined)
       => /\ pc = "done"
          /\ IsValidationError("INVALID_TEXT")
          /\ res.message = MissingMessage(variant)
          /\ textContent = Undefined
          /\ calls = NoCalls
  /\ (pc = "done" /\ res.code = "EMPTY_TEXT" /\ upstream.kind = "none")
       => /\ req.body.text.t = "string"
          /\ Len(req.body.text.v) > 0
          /\ OnlySpaces(req.body.text.v)
          /\ textContent = req.body.text

\* The empty text, stopped at the presence check of server.js.
C24_Witness ==
  /\ pc = "done" /\ variant = "server"
  /\ req.body.text = Str(<<>>) /\ req.body.url = Undefined
  /\ res.code = "INVALID_TEXT"
  /\ res.message = <<"Request must contain either 'text' or 'url' field">>
  /\ textContent = Undefined

====
